---------------------------- MODULE Spec2Model ----------------------------
(***************************************************************************)
(* Model of ipp_macro_series_parser/comptes_nationaux/cn_extract_data.py:  *)
(* look_up (the row filter), get_or_construct_value (the recursive         *)
(* resolver) and get_or_construct_data (the batch driver).                 *)
(* look_many, which only concatenates the results of look_up, is left out. *)
(*                                                                         *)
(* Python strings are sequences of one-character strings, so that          *)
(* str.replace, the regular-expression search of Series.str.contains and   *)
(* the tokenizer of the formula parser are computed, not assumed.          *)
(* A Python value held in a dictionary is a tagged record, None included.  *)
(* A DataFrame is a record of its column set and its rows in order; every  *)
(* row carries the index label it has in the stacked table.                *)
(***************************************************************************)
EXTENDS Integers, Sequences, FiniteSets, TLC

VARIABLES
    df,               \* the stacked table handed to every operation
    years,            \* the years of interest
    entry_by_index,   \* look_up: the constraint dictionary
    visited,          \* look_up: keys already iterated, in iteration order
    result,           \* look_up: the local variable `result'
    trace,            \* look_up: `result' after line 40 and after each iteration
    evaluated,        \* look_up: keys k for which df[k] has been evaluated
    lpc,              \* look_up: "call", "loop", "returned" or "KeyError"
    api,              \* the operation called: "look_up", "value" or "data"
    index_by_variable,\* the registry given by the caller (None when absent)
    variable_name,    \* get_or_construct_value: the variable asked for
    stack,            \* the activations of get_or_construct_value, innermost last
    ret,              \* what the last activation returned: <<>> or <<(serie, formula)>>
    status,           \* "running", "returned", or the exception that ended the call
    iterated,         \* get_or_construct_data: the variables iterated, in order
    combined,         \* get_or_construct_data: the local variable `result'
    formulas,         \* get_or_construct_data: the local variable `formulas'
    printed           \* the variable names printed by line 189 (derived branch)

lookVars == <<entry_by_index, visited, result, trace, evaluated, lpc>>
resolveVars ==
    <<index_by_variable, variable_name, stack, ret, status, iterated, combined,
      formulas, printed>>
vars == <<df, years, api, lookVars, resolveVars>>

----------------------------------------------------------------------------
(* Bounds of the model *)

\* Largest number of rows of a table
MaxRows == 4
\* Largest number of keys of a constraint dictionary given to look_up
MaxKeys == 2
\* The interpreter's recursion limit (sys.getrecursionlimit(), 1000 by
\* default), scaled down: the largest number of nested activations of
\* get_or_construct_value; one more raises RuntimeError
MaxDepth == 5

----------------------------------------------------------------------------
(* Python values *)

None == [t |-> "none"]
PStr(s) == [t |-> "str", v |-> s]
PBool(b) == [t |-> "bool", v |-> b]
PInt(n) == [t |-> "int", v |-> n]

IsNone(x) == x.t = "none"

\* `not x' for the values a `formula' or `drop' entry can hold
Falsy(x) ==
    \/ x.t = "none"
    \/ x.t = "str" /\ x.v = <<>>
    \/ x.t = "bool" /\ x.v = FALSE
    \/ x.t = "int" /\ x.v = 0

\* dict.get(key): None when the key is absent
Get(d, key) == IF key \in DOMAIN d THEN d[key] ELSE None

----------------------------------------------------------------------------
(* Strings *)

sD41 == <<"D", "4", "1">>
sD42 == <<"D", "4", "2">>
sD43 == <<"D", "4", "3">>
sS1 == <<"S", "1">>
sS2 == <<"S", "2">>
sPIB == <<"P", "I", "B">>
sPIN == <<"P", "I", "N">>
sPdI == <<"P", ".", "I">>

\* re.search(pat, s) for a pattern of literal characters and the wildcard `.'
RegexSearch(pat, s) ==
    \E i \in 0..(Len(s) - Len(pat)) :
        \A j \in 1..Len(pat) : pat[j] = "." \/ pat[j] = s[i + j]

\* Series.str.contains(pat): regex=True is the default of pandas
StrContains(s, pat) == RegexSearch(pat, s)

\* Python's `pat in s': plain substring containment
IsSubstring(pat, s) ==
    \E i \in 0..(Len(s) - Len(pat)) : SubSeq(s, i + 1, i + Len(pat)) = pat

----------------------------------------------------------------------------
(* The stacked table *)

Columns == {"code", "institution", "ressources", "year", "description", "value"}

ColType ==
    [c \in Columns |->
        CASE c \in {"code", "institution", "description"} -> "str"
          [] c = "ressources" -> "bool"
          [] OTHER -> "int"]

MkRow(c, i, r, y, d, v) ==
    [code |-> c, institution |-> i, ressources |-> r, year |-> y,
     description |-> d, value |-> v]

RowUniverse ==
    { MkRow(sD41, sS1, FALSE, 1999, sPIB, 10),
      MkRow(sD41, sS1, FALSE, 2000, sPIB, 20),
      MkRow(sD42, sS1, FALSE, 1999, sPIN, 5),
      MkRow(sD42, sS1, FALSE, 2000, sPIN, 7),
      MkRow(sD41, sS2, TRUE, 1999, sPdI, 3) }

Range(q) == { q[k] : k \in DOMAIN q }

\* Sequences of distinct elements of S, of length at most n
RECURSIVE Arrangements(_, _)
Arrangements(S, n) ==
    IF n = 0 THEN {<<>>}
    ELSE LET shorter == Arrangements(S, n - 1)
             longest == { p \in shorter : Len(p) = n - 1 }
         IN shorter \cup
            UNION { { Append(q, x) : x \in S \ Range(q) } : q \in longest }

\* A DataFrame: its columns and its rows; row k of the stacked table has label k
Frame(rows) ==
    [columns |-> Columns,
     rows |-> [k \in 1..Len(rows) |-> [idx |-> k, rec |-> rows[k]]]]

\* pandas.DataFrame()
EmptyFrame == [columns |-> {}, rows |-> <<>>]

\* DataFrame.empty
IsEmpty(frame) == frame.rows = <<>>

Tables == { Frame(rows) : rows \in Arrangements(RowUniverse, MaxRows) }

YearRanges == { {1999}, {1999, 2000} }

----------------------------------------------------------------------------
(* look_up *)

\* df[key] == value, as a function of the index label (a value of another
\* type than the column's equals no cell)
EqMask(table, key, value) ==
    [k \in 1..Len(table.rows) |->
        /\ value.t = ColType[key]
        /\ table.rows[k].rec[key] = value.v]

\* df[key].str.contains(value)
ContainsMask(table, key, value) ==
    [k \in 1..Len(table.rows) |->
        /\ value.t = "str"
        /\ StrContains(table.rows[k].rec[key], value.v)]

\* df['year'].isin(years)
IsinMask(table, ys) ==
    [k \in 1..Len(table.rows) |-> table.rows[k].rec["year"] \in ys]

\* result[mask].copy(): the rows of `frame' whose label the mask selects
BoolIndex(frame, mask) ==
    [columns |-> frame.columns,
     rows |-> SelectSeq(frame.rows, LAMBDA r : mask[r.idx])]

\* Lines 39-40
LookUpStart(table, ys) == BoolIndex(table, IsinMask(table, ys))

\* Whether the iteration for (key, value) evaluates df[key]
EvaluatesColumn(key, value) ==
    /\ ~IsNone(value)
    /\ key # "drop"
    /\ key # "formula"

\* Whether the iteration for (key, value) raises KeyError (lines 47-51; the
\* description branch raises it as well when the column is missing)
RaisesKeyError(table, key, value) ==
    EvaluatesColumn(key, value) /\ key \notin table.columns

\* A variant of lines 46-54 in which the equality constraint selects from the
\* whole table instead of the current subset
LookUpBodyOnTable(table, res, key, value) ==
    IF IsNone(value) THEN res
    ELSE IF key = "drop" THEN res
    ELSE IF key # "description" /\ key # "formula"
         THEN LET narrowed ==
                      BoolIndex([columns |-> table.columns, rows |-> table.rows],
                                EqMask(table, key, value))
              IN IF IsEmpty(narrowed) THEN EmptyFrame ELSE narrowed
    ELSE IF key = "description"
         THEN BoolIndex(res, ContainsMask(table, key, value))
    ELSE EmptyFrame

\* One iteration of the loop of lines 41-58 that does not raise
LookUpBody(table, res, key, value) ==
    IF IsNone(value) THEN res
    ELSE IF key = "drop" THEN res
    ELSE IF key # "description" /\ key # "formula"
         THEN LET narrowed == BoolIndex(res, EqMask(table, key, value))
              IN IF IsEmpty(narrowed) THEN EmptyFrame ELSE narrowed
    ELSE IF key = "description"
         THEN BoolIndex(res, ContainsMask(table, key, value))
    ELSE EmptyFrame

\* look_up as a function: the frame returned, or the string "KeyError", when
\* the dictionary is iterated in the order `ord'
RECURSIVE LookUpFrom(_, _, _, _)
LookUpFrom(table, entry, ord, res) ==
    IF ord = <<>> THEN res
    ELSE IF RaisesKeyError(table, Head(ord), entry[Head(ord)])
         THEN [columns |-> {}, rows |-> <<>>, error |-> "KeyError"]
         ELSE LookUpFrom(table, entry, Tail(ord),
                         LookUpBody(table, res, Head(ord), entry[Head(ord)]))

IsError(x) == "error" \in DOMAIN x

look_up(table, entry, ord, ys) ==
    LookUpFrom(table, entry, ord, LookUpStart(table, ys))

----------------------------------------------------------------------------
(* Formula strings *)

\* str.replace(old, new): the occurrences of `old', left to right, without
\* overlap (`old' is not empty)
RECURSIVE Replace(_, _, _)
Replace(s, old, new) ==
    IF Len(s) < Len(old) THEN s
    ELSE IF SubSeq(s, 1, Len(old)) = old
         THEN new \o Replace(SubSeq(s, Len(old) + 1, Len(s)), old, new)
         ELSE <<Head(s)>> \o Replace(Tail(s), old, new)

OpChars == {"+", "-", "*"}

\* The characters of the variable names explored
NameChars == {"X", "Y", "Z", "W", "U", "D", "1", "2", "3", "4", "_"}

IsNameChar(c) == c \in NameChars

\* Length of the longest prefix of s made of name characters
RECURSIVE NamePrefix(_)
NamePrefix(s) ==
    IF s # <<>> /\ IsNameChar(Head(s)) THEN 1 + NamePrefix(Tail(s)) ELSE 0

\* Parser().parse(formula): the tokens of the expression, blanks skipped
RECURSIVE Tokens(_)
Tokens(s) ==
    IF s = <<>> THEN <<>>
    ELSE IF IsNameChar(Head(s))
         THEN LET n == NamePrefix(s)
              IN <<[kind |-> "var", text |-> SubSeq(s, 1, n)]>>
                     \o Tokens(SubSeq(s, n + 1, Len(s)))
    ELSE IF Head(s) \in OpChars
         THEN <<[kind |-> "op", text |-> <<Head(s)>>]>> \o Tokens(Tail(s))
    ELSE Tokens(Tail(s))

\* expr.variables(): the distinct variable names, in order of first appearance
RECURSIVE Distinct(_, _)
Distinct(toks, seen) ==
    IF toks = <<>> THEN <<>>
    ELSE IF Head(toks).kind = "var" /\ Head(toks).text \notin seen
         THEN <<Head(toks).text>>
                  \o Distinct(Tail(toks), seen \cup {Head(toks).text})
         ELSE Distinct(Tail(toks), seen)

Variables(formula) == Distinct(Tokens(formula), {})

----------------------------------------------------------------------------
(* Series and arrays *)

\* pandas.DataFrame() as a series: no column, no row
EmptySerie == [columns |-> <<>>, index |-> <<>>, values |-> <<>>]

\* Lines 177-180: entry_df.set_index('year')[['value']], renamed
DirectSerie(frame, name) ==
    [columns |-> <<name>>,
     index |-> [k \in 1..Len(frame.rows) |-> frame.rows[k].rec["year"]],
     values |-> [k \in 1..Len(frame.rows) |-> frame.rows[k].rec["value"]]]

\* variable_value.values.squeeze(): the (n, 1) values of a one-column frame
\* become a vector, a scalar when n = 1; the (0, 0) values of
\* pandas.DataFrame() stay two-dimensional
Squeeze(serie) ==
    IF serie.columns = <<>> THEN [shape |-> "matrix", data |-> <<>>]
    ELSE IF Len(serie.values) = 1
         THEN [shape |-> "scalar", data |-> serie.values]
         ELSE [shape |-> "vector", data |-> serie.values]

ArrayError(kind) == [shape |-> "error", data |-> <<>>, error |-> kind]

Apply(op, a, b) ==
    IF op = <<"+">> THEN a + b ELSE IF op = <<"-">> THEN a - b ELSE a * b

\* a op b for numpy operands: element-wise, a scalar broadcast to the other
\* operand, ValueError when the shapes cannot be broadcast together
Broadcast(op, a, b) ==
    IF a.shape = "error" THEN a
    ELSE IF b.shape = "error" THEN b
    ELSE IF a.shape = "scalar" /\ b.shape = "scalar"
         THEN [shape |-> "scalar", data |-> <<Apply(op, a.data[1], b.data[1])>>]
    ELSE IF a.shape = "scalar" /\ b.shape = "vector"
         THEN [shape |-> "vector",
               data |-> [k \in 1..Len(b.data) |-> Apply(op, a.data[1], b.data[k])]]
    ELSE IF a.shape = "vector" /\ b.shape = "scalar"
         THEN [shape |-> "vector",
               data |-> [k \in 1..Len(a.data) |-> Apply(op, a.data[k], b.data[1])]]
    ELSE IF a.shape = "vector" /\ b.shape = "vector"
         THEN IF Len(a.data) = Len(b.data)
              THEN [shape |-> "vector",
                    data |-> [k \in 1..Len(a.data) |->
                                 Apply(op, a.data[k], b.data[k])]]
              ELSE ArrayError("ValueError")
    ELSE IF a.shape = "vector" \/ b.shape = "vector"
         THEN ArrayError("ValueError")
    ELSE [shape |-> "matrix", data |-> <<>>]

\* The value of  v1 op v2 op ... vn  read from the left, names bound by dico
RECURSIVE EvalTokens(_, _)
EvalTokens(toks, dico) ==
    IF Len(toks) = 1 THEN dico[toks[1].text]
    ELSE Broadcast(toks[Len(toks) - 1].text,
                   EvalTokens(SubSeq(toks, 1, Len(toks) - 2), dico),
                   dico[toks[Len(toks)].text])

\* Lines 204-209: eval(formula.replace("^", "**"), dico_value)
Eval(formula, dico) ==
    EvalTokens(Tokens(Replace(formula, <<"^">>, <<"*", "*">>)), dico)

\* Lines 214-217: pandas.DataFrame(data = {variable_name: data}, index = index).
\* A scalar fills the index, a vector must have its length, two-dimensional
\* data is refused.
MakeSerie(name, data, index) ==
    IF data.shape = "error" THEN [error |-> data.error]
    ELSE IF data.shape = "matrix" THEN [error |-> "Exception"]
    ELSE IF data.shape = "scalar"
         THEN [columns |-> <<name>>, index |-> index,
               values |-> [k \in 1..Len(index) |-> data.data[1]]]
    ELSE IF Len(data.data) = Len(index)
         THEN [columns |-> <<name>>, index |-> index, values |-> data.data]
    ELSE [error |-> "ValueError"]

\* The combined table of get_or_construct_data: its year index and, per
\* column, the cells in index order ({} is a missing cell, {v} the value v)
EmptyTable == [index |-> <<>>, columns |-> <<>>, cells |-> <<>>]

HasDuplicates(q) == \E a, b \in DOMAIN q : a # b /\ q[a] = q[b]

\* The elements of the finite set of integers S in increasing order
RECURSIVE Sorted(_)
Sorted(S) ==
    IF S = {} THEN <<>>
    ELSE LET m == CHOOSE x \in S : \A y \in S : x <= y
         IN <<m>> \o Sorted(S \ {m})

\* The index of pandas.concat((a, b), axis=1): the union of both indexes
UnionIndex(a, b) ==
    IF a = <<>> THEN b
    ELSE IF b = <<>> \/ a = b THEN a
    ELSE Sorted(Range(a) \cup Range(b))

\* The cells of a column with index `from', aligned on the index `to'
Reindex(cells, from, to) ==
    IF from = to THEN cells
    ELSE [k \in 1..Len(to) |->
             UNION { cells[j] : j \in { i \in DOMAIN from : from[i] = to[k] } }]

\* Line 338: pandas.concat((result, variable_values), axis=1). An index that
\* holds a year twice cannot be aligned on another index.
Concat(table, serie) ==
    LET to == UnionIndex(table.index, serie.index)
    IN IF \/ HasDuplicates(table.index) /\ table.index # to
          \/ HasDuplicates(serie.index) /\ serie.index # to
       THEN [error |-> "ValueError"]
       ELSE [index |-> to,
             columns |-> table.columns \o serie.columns,
             cells |->
                 [k \in 1..Len(table.columns) |->
                     Reindex(table.cells[k], table.index, to)]
                 \o (IF serie.columns = <<>> THEN <<>>
                     ELSE <<Reindex([j \in 1..Len(serie.values) |->
                                        {serie.values[j]}],
                                    serie.index, to)>>)]

----------------------------------------------------------------------------
(* look_up, one loop iteration at a time *)

Keys ==
    {"code", "institution", "ressources", "year", "description", "formula",
     "drop", "sector"}

sXplusY == <<"X", " ", "+", " ", "Y">>

\* The values each key takes in the constraint dictionaries explored;
\* "sector" is not a column of the table
KeyValues ==
    [k \in Keys |->
        CASE k = "code" -> {None, PStr(sD41), PStr(sD43)}
          [] k = "institution" -> {PStr(sS1)}
          [] k = "ressources" -> {PBool(FALSE)}
          [] k = "year" -> {PInt(1999)}
          [] k = "description" -> {None, PStr(<<"P", "I">>), PStr(<<"P", ".">>)}
          [] k = "formula" -> {None, PStr(<<>>), PStr(sXplusY)}
          [] k = "drop" -> {PBool(TRUE)}
          [] OTHER -> {PStr(sS1)}]

Entries ==
    UNION { { e \in [K -> UNION { KeyValues[k] : k \in Keys }] :
                \A k \in K : e[k] \in KeyValues[k] } :
            K \in { K \in SUBSET Keys : Cardinality(K) <= MaxKeys } }

InitLookUp ==
    /\ df \in Tables
    /\ years \in YearRanges
    /\ entry_by_index \in Entries
    /\ visited = <<>>
    /\ result = EmptyFrame
    /\ trace = <<>>
    /\ evaluated = {}
    /\ lpc = "call"
    /\ api = "look_up"
    /\ index_by_variable = None
    /\ variable_name = <<>>
    /\ stack = <<>>
    /\ ret = <<>>
    /\ status = "idle"
    /\ iterated = <<>>
    /\ combined = EmptyTable
    /\ formulas = <<>>
    /\ printed = {}

\* Lines 39-40: the copy of the table narrowed to the years of interest
LookUpCall ==
    /\ lpc = "call"
    /\ result' = LookUpStart(df, years)
    /\ trace' = <<result'>>
    /\ lpc' = "loop"
    /\ UNCHANGED <<df, years, api, entry_by_index, visited, evaluated>>
    /\ UNCHANGED resolveVars

\* Lines 41-58: one iteration. The items of a dictionary come in an order
\* fixed by the hashes of its keys: every order is explored.
LookUpIter ==
    /\ lpc = "loop"
    /\ \E key \in DOMAIN entry_by_index \ Range(visited) :
        LET value == entry_by_index[key]
        IN /\ visited' = Append(visited, key)
           /\ evaluated' = IF EvaluatesColumn(key, value)
                            THEN evaluated \cup {key} ELSE evaluated
           /\ IF RaisesKeyError(df, key, value)
              THEN /\ lpc' = "KeyError"
                   /\ UNCHANGED <<result, trace>>
              ELSE /\ result' = LookUpBody(df, result, key, value)
                   /\ trace' = Append(trace, result')
                   /\ lpc' = "loop"
    /\ UNCHANGED <<df, years, api, entry_by_index>>
    /\ UNCHANGED resolveVars

\* Line 59
LookUpReturn ==
    /\ lpc = "loop"
    /\ Range(visited) = DOMAIN entry_by_index
    /\ lpc' = "returned"
    /\ UNCHANGED <<df, years, api, entry_by_index, visited, result, trace, evaluated>>
    /\ UNCHANGED resolveVars

NextLookUp == LookUpCall \/ LookUpIter \/ LookUpReturn

SpecLookUp == InitLookUp /\ [][NextLookUp]_vars

----------------------------------------------------------------------------
(* get_or_construct_value and get_or_construct_data *)

PDict(d) == [t |-> "dict", v |-> d]

sX == <<"X">>
sY == <<"Y">>
sZ == <<"Z">>
sW == <<"W">>
sU == <<"U">>

Formula(a, op, b) == a \o <<" ", op, " ">> \o b

\* The order in which the items of a dictionary are iterated: one order,
\* fixed by the keys
DictOrder(d) ==
    CHOOSE ord \in Arrangements(DOMAIN d, Cardinality(DOMAIN d)) :
        Len(ord) = Cardinality(DOMAIN d)

\* A new activation of get_or_construct_value(df, name, registry, years)
NewFrame(name, registry) ==
    [variable_name |-> name, index_by_variable |-> registry, pc |-> "enter",
     formula |-> <<>>, variables |-> <<>>, i |-> 1, final_formula |-> <<>>,
     dico_value |-> <<>>, index |-> <<>>]

Top == stack[Len(stack)]

\* A variant of lines 166-169 that tests `not index_by_variable', and so
\* synthesizes the definition for an empty registry as well
RegistryWhenFalsy(f) ==
    IF IsNone(f.index_by_variable) \/ DOMAIN f.index_by_variable.v = {}
    THEN [n \in {f.variable_name} |-> [code |-> PStr(f.variable_name)]]
    ELSE f.index_by_variable.v

\* Lines 166-169: the registry the activation works with
Registry(f) ==
    IF IsNone(f.index_by_variable)
    THEN [n \in {f.variable_name} |-> [code |-> PStr(f.variable_name)]]
    ELSE f.index_by_variable.v

\* A variant of lines 170-192 with cycle detection: an activation for a
\* variable that is already in progress raises instead of going on
EnterOutcomeCycleChecked(f) ==
    LET registry == Registry(f)
    IN IF \E k \in 1..(Len(stack) - 1) :
              stack[k].variable_name = f.variable_name
       THEN [kind |-> "raise", error |-> "CycleError"]
       ELSE IF f.variable_name \notin DOMAIN registry
       THEN [kind |-> "raise", error |-> "KeyError"]
       ELSE LET variable == registry[f.variable_name]
                formula == Get(variable, "formula")
                entry_df == look_up(df, variable, DictOrder(variable), years)
            IN IF IsError(entry_df)
               THEN [kind |-> "raise", error |-> entry_df.error]
               ELSE IF ~IsEmpty(entry_df)
               THEN [kind |-> "return",
                     serie |-> DirectSerie(entry_df, f.variable_name),
                     final_formula |-> f.variable_name]
               ELSE IF Falsy(formula)
               THEN [kind |-> "return", serie |-> EmptySerie,
                     final_formula |-> <<>>]
               ELSE [kind |-> "derived", formula |-> formula.v,
                     variables |-> Variables(formula.v)]

\* Lines 170-192: what an activation does up to the loop over the components:
\* it raises, returns, or enters the derived branch
EnterOutcome(f) ==
    LET registry == Registry(f)
    IN IF f.variable_name \notin DOMAIN registry
       THEN [kind |-> "raise", error |-> "KeyError"]
       ELSE LET variable == registry[f.variable_name]
                formula == Get(variable, "formula")
                entry_df == look_up(df, variable, DictOrder(variable), years)
            IN IF IsError(entry_df)
               THEN [kind |-> "raise", error |-> entry_df.error]
               ELSE IF ~IsEmpty(entry_df)
               THEN [kind |-> "return",
                     serie |-> DirectSerie(entry_df, f.variable_name),
                     final_formula |-> f.variable_name]
               ELSE IF Falsy(formula)
               THEN [kind |-> "return", serie |-> EmptySerie,
                     final_formula |-> <<>>]
               ELSE [kind |-> "derived", formula |-> formula.v,
                     variables |-> Variables(formula.v)]

\* Lines 204-217: the evaluation of the formula once every component is resolved
EvaluateOutcome(f) ==
    LET data == Eval(f.formula, f.dico_value)
        serie == MakeSerie(f.variable_name, data, f.index)
    IN IF IsError(serie)
       THEN [kind |-> "raise", error |-> serie.error]
       ELSE [kind |-> "return", serie |-> serie,
             final_formula |-> f.final_formula]

\* Lines 198-202: the bookkeeping after the component's activation returned
AfterComponentFrame(f, r) ==
    LET component == f.variables[f.i]
        formula_with_parenthesis == <<"(">> \o r.final_formula \o <<")">>
    IN [f EXCEPT
           !.final_formula = Replace(f.formula, component, formula_with_parenthesis),
           !.dico_value =
               [n \in DOMAIN f.dico_value \cup {component} |->
                   IF n = component THEN Squeeze(r.serie) ELSE f.dico_value[n]],
           !.index = r.serie.index,
           !.i = f.i + 1,
           !.pc = "loop"]

\* What an outcome does to the activations: an exception ends the whole call
\* and returns nothing (the activations it leaves are kept as they were when
\* it was raised); a return (line 222) hands the series and the formula to
\* the caller; the derived branch goes on to the loop of line 194
Settle(o) ==
    /\ stack' =
           CASE o.kind = "raise" -> stack
             [] o.kind = "return" -> SubSeq(stack, 1, Len(stack) - 1)
             [] OTHER -> [stack EXCEPT ![Len(stack)] =
                             [@ EXCEPT !.pc = "loop",
                                       !.formula = o.formula,
                                       !.variables = o.variables]]
    /\ ret' =
           CASE o.kind = "raise" -> <<>>
             [] o.kind = "return" ->
                    <<[serie |-> o.serie, final_formula |-> o.final_formula]>>
             [] OTHER -> ret
    /\ status' =
           CASE o.kind = "raise" -> o.error
             [] o.kind = "return" ->
                    IF Len(stack) = 1 /\ api = "value" THEN "returned" ELSE status
             [] OTHER -> status

EnterGuard == status = "running" /\ stack # <<>> /\ Top.pc = "enter"

Enter ==
    /\ EnterGuard
    /\ Settle(EnterOutcome(Top))
    /\ printed' = IF EnterOutcome(Top).kind = "derived"
                  THEN printed \cup {Top.variable_name} ELSE printed
    /\ UNCHANGED <<df, years, api, lookVars, index_by_variable, variable_name,
                   iterated, combined, formulas>>

\* Line 197: the recursive call for the next component
CallComponentGuard ==
    /\ status = "running"
    /\ stack # <<>>
    /\ Top.pc = "loop"
    /\ Top.i <= Len(Top.variables)

CallComponent ==
    /\ CallComponentGuard
    /\ IF Len(stack) < MaxDepth
       THEN /\ stack' = Append([stack EXCEPT ![Len(stack)].pc = "wait"],
                               NewFrame(Top.variables[Top.i],
                                        PDict(Registry(Top))))
            /\ status' = status
       ELSE /\ stack' = stack
            /\ status' = "RuntimeError"
    /\ UNCHANGED <<df, years, api, lookVars, index_by_variable, variable_name,
                   ret, iterated, combined, formulas, printed>>

AfterComponentGuard ==
    status = "running" /\ stack # <<>> /\ Top.pc = "wait" /\ ret # <<>>

AfterComponent ==
    /\ AfterComponentGuard
    /\ stack' = [stack EXCEPT ![Len(stack)] = AfterComponentFrame(@, ret[1])]
    /\ ret' = <<>>
    /\ UNCHANGED <<df, years, api, lookVars, index_by_variable, variable_name,
                   status, iterated, combined, formulas, printed>>

EvaluateGuard ==
    /\ status = "running"
    /\ stack # <<>>
    /\ Top.pc = "loop"
    /\ Top.i > Len(Top.variables)

Evaluate ==
    /\ EvaluateGuard
    /\ Settle(EvaluateOutcome(Top))
    /\ UNCHANGED <<df, years, api, lookVars, index_by_variable, variable_name,
                   iterated, combined, formulas, printed>>

\* A variant of line 336 that reads the key `dropped'
NotDroppedMisspelt(variable) == Falsy(Get(variable, "dropped"))

\* Lines 336-337: `not drop'
NotDropped(variable) == Falsy(Get(variable, "drop"))

\* Lines 327-330: the next variable of the registry, in any iteration order
DataCallGuard ==
    /\ api = "data"
    /\ status = "running"
    /\ stack = <<>>
    /\ ret = <<>>
    /\ DOMAIN index_by_variable.v \ Range(iterated) # {}

DataCall ==
    /\ DataCallGuard
    /\ \E variable \in DOMAIN index_by_variable.v \ Range(iterated) :
        /\ iterated' = Append(iterated, variable)
        /\ stack' = <<NewFrame(variable, index_by_variable)>>
    /\ UNCHANGED <<df, years, api, lookVars, index_by_variable, variable_name,
                   ret, status, combined, formulas, printed>>

\* Lines 331-340: the formula and the column of the variable just resolved
DataCollectGuard ==
    api = "data" /\ status = "running" /\ stack = <<>> /\ ret # <<>>

DataCollect ==
    /\ DataCollectGuard
    /\ LET variable == iterated[Len(iterated)]
           definition == index_by_variable.v[variable]
           name == Replace(variable, <<"_">>, <<" ">>)
           table == IF NotDropped(definition)
                    THEN Concat(combined, ret[1].serie) ELSE combined
       IN /\ formulas' =
                 IF ~IsNone(Get(definition, "formula"))
                 THEN [n \in DOMAIN formulas \cup {name} |->
                          IF n = name THEN ret[1].final_formula ELSE formulas[n]]
                 ELSE formulas
          /\ IF IsError(table)
             THEN /\ status' = table.error
                  /\ UNCHANGED combined
             ELSE /\ combined' = table
                  /\ UNCHANGED status
    /\ ret' = <<>>
    /\ UNCHANGED <<df, years, api, lookVars, index_by_variable, variable_name,
                   stack, iterated, printed>>

\* Line 342
DataReturnGuard ==
    /\ api = "data"
    /\ status = "running"
    /\ stack = <<>>
    /\ ret = <<>>
    /\ Range(iterated) = DOMAIN index_by_variable.v

DataReturn ==
    /\ DataReturnGuard
    /\ status' = "returned"
    /\ UNCHANGED <<df, years, api, lookVars, index_by_variable, variable_name,
                   stack, ret, iterated, combined, formulas, printed>>

----------------------------------------------------------------------------
(* The registries explored *)

Direct(code) == [code |-> PStr(code)]
DirectDropped(code, institution) ==
    [code |-> PStr(code), institution |-> PStr(institution),
     drop |-> PBool(TRUE)]
Derived(formula) == [code |-> None, formula |-> PStr(formula)]

\* A registry declaring X, Y and Z
Registry3(x, y, z) ==
    [n \in {sX, sY, sZ} |-> IF n = sX THEN x ELSE IF n = sY THEN y ELSE z]

\* A registry declaring X, Y, Z and W
Registry4(x, y, z, w) ==
    [n \in {sX, sY, sZ, sW} |->
        IF n = sX THEN x ELSE IF n = sY THEN y ELSE IF n = sZ THEN z ELSE w]

\* Formulas of Z: over declared variables, with an undeclared one (U) before
\* or after a declared one, and referring to Z itself
FormulasOfZ ==
    { Formula(sX, "+", sY), Formula(sY, "+", sX), Formula(sX, "-", sY),
      Formula(sX, "+", sU), Formula(sU, "+", sX),
      Formula(sZ, "+", sX), Formula(sU, "+", sZ) }

\* Formulas of W, which Z refers to: nested, undeclared, and back to Z
FormulasOfW ==
    { Formula(sX, "+", sY), Formula(sY, "+", sU), Formula(sY, "+", sZ) }

Dictionaries ==
    { Registry3(x, Direct(sD42), Derived(f)) :
          x \in {Direct(sD41), DirectDropped(sD41, sS1)}, f \in FormulasOfZ }
    \cup { Registry4(Direct(sD41), Direct(sD42), Derived(Formula(sX, "+", sW)),
                     Derived(f)) : f \in FormulasOfW }
    \cup { Registry4(Direct(sD41), Direct(sD42), Derived(Formula(sW, "+", sU)),
                     Derived(Formula(sX, "+", sY))) }

Registries == {None, PDict(<<>>)} \cup { PDict(d) : d \in Dictionaries }

\* The registries given to get_or_construct_data
DataDictionaries ==
    { Registry3(x, Direct(sD42), Derived(f)) :
          x \in {Direct(sD41), DirectDropped(sD41, sS1)},
          f \in {Formula(sX, "+", sY), Formula(sX, "+", sU)} }

\* The names asked of get_or_construct_value: a direct variable, a derived
\* one, and a name that is a code of the table
RequestedNames == {sX, sZ, sD41}

InitResolve ==
    /\ df \in Tables
    /\ years \in YearRanges
    /\ entry_by_index = <<>>
    /\ visited = <<>>
    /\ result = EmptyFrame
    /\ trace = <<>>
    /\ evaluated = {}
    /\ lpc = "idle"
    /\ \/ /\ api = "value"
          /\ index_by_variable \in Registries
          /\ variable_name \in RequestedNames
          /\ stack = <<NewFrame(variable_name, index_by_variable)>>
       \/ /\ api = "data"
          /\ index_by_variable \in { PDict(d) : d \in DataDictionaries }
          /\ variable_name = <<>>
          /\ stack = <<>>
    /\ ret = <<>>
    /\ status = "running"
    /\ iterated = <<>>
    /\ combined = EmptyTable
    /\ formulas = <<>>
    /\ printed = {}

NextResolve ==
    \/ Enter
    \/ CallComponent
    \/ AfterComponent
    \/ Evaluate
    \/ DataCall
    \/ DataCollect
    \/ DataReturn

SpecResolve == InitResolve /\ [][NextResolve]_vars

----------------------------------------------------------------------------
(* Claims about look_up, checked under SpecLookUp *)

FieldKeys == {"code", "institution", "ressources", "year", "description"}

\* The row matches the constraint as the specification words it: description
\* by substring containment, every other field by equality
MatchesAsSpecified(rec, key, value) ==
    IF key = "description"
    THEN value.t = "str" /\ IsSubstring(value.v, rec[key])
    ELSE value.t = ColType[key] /\ rec[key] = value.v

SpecifiedRows ==
    SelectSeq(df.rows,
              LAMBDA r :
                  /\ r.rec["year"] \in years
                  /\ \A k \in DOMAIN entry_by_index :
                        \/ k = "drop"
                        \/ IsNone(entry_by_index[k])
                        \/ MatchesAsSpecified(r.rec, k, entry_by_index[k]))

\* C1: for a constraint set without `formula', over the fields of the table
\* and `drop', look_up returns exactly the rows of the table whose year is
\* requested and which match every non-null constraint, description by
\* substring containment and the other fields by equality.
C1_ExactlyTheMatchingRows ==
    ( /\ lpc = "returned"
      /\ "formula" \notin DOMAIN entry_by_index
      /\ DOMAIN entry_by_index \subseteq FieldKeys \cup {"drop"} )
    => result.rows = SpecifiedRows

\* C2: look_up called with a constraint set that contains the key `formula'
\* returns an empty result, whatever the value of that key (None included)
\* and whatever the other constraints and the iteration order.
C2_FormulaKeyForcesEmpty ==
    (lpc = "returned" /\ "formula" \in DOMAIN entry_by_index)
    => IsEmpty(result)

\* visited[i] is a non-null constraint on a field of the table
NonNullConstraint(i) ==
    /\ ~IsNone(entry_by_index[visited[i]])
    /\ visited[i] \notin {"drop", "formula"}

\* The subset before and after iteration i
Before(i) == trace[i]
After(i) == trace[i + 1]

\* Iteration i applied a non-null constraint that narrowed a subset holding
\* rows to empty
EmptiedAt(i) ==
    /\ i \in 1..(Len(trace) - 1)
    /\ NonNullConstraint(i)
    /\ ~IsEmpty(Before(i))
    /\ IsEmpty(After(i))

\* C10 as stated: once a non-null constraint has narrowed the subset to
\* empty, every later constraint is skipped: it is not evaluated against the
\* table, so nothing depends on it any more.
C10_LaterConstraintsSkipped ==
    \A i \in 1..Len(visited) :
        EmptiedAt(i) =>
            /\ \A j \in (i + 1)..Len(visited) : visited[j] \notin evaluated
            /\ lpc # "KeyError"

\* C10 as amended: once a non-null constraint has narrowed the subset to
\* empty, the result stays empty, but the loop goes on: every later non-null
\* constraint is still evaluated against the table, and one on a field the
\* table does not have still raises KeyError.
C10_EmptyKeptLoopContinues ==
    \A i \in 1..Len(visited) :
        EmptiedAt(i) =>
            /\ \A j \in (i + 1)..Len(visited) :
                  /\ NonNullConstraint(j) => visited[j] \in evaluated
                  /\ j < Len(trace) => IsEmpty(After(j))
                  /\ j >= Len(trace) =>
                        lpc = "KeyError" /\ visited[j] \notin Columns
            /\ lpc = "returned" => IsEmpty(result)

\* C10 witness: the subset was emptied by an equality constraint and a later
\* constraint has been evaluated against the table and applied all the same
C10_Witness ==
    \E i \in 1..Len(visited) :
        /\ EmptiedAt(i)
        /\ visited[i] # "description"
        /\ \E j \in (i + 1)..(Len(trace) - 1) :
              NonNullConstraint(j) /\ visited[j] \in evaluated

----------------------------------------------------------------------------
(* Claims about get_or_construct_value and get_or_construct_data, checked   *)
(* under SpecResolve                                                        *)

Finished == status # "running"

IsDict(r) == r.t = "dict"

\* The definition of a declared variable
Definition(n) == index_by_variable.v[n]

Declared(n) == IsDict(index_by_variable) /\ n \in DOMAIN index_by_variable.v

\* A declared variable with a formula to evaluate
IsDerived(n) ==
    /\ Declared(n)
    /\ "formula" \in DOMAIN Definition(n)
    /\ Definition(n)["formula"].t = "str"
    /\ Definition(n)["formula"].v # <<>>

FormulaOf(n) == Definition(n)["formula"].v

\* The names the formula of n refers to
References(n) == IF IsDerived(n) THEN Range(Variables(FormulaOf(n))) ELSE {}

\* The rows a declared variable without formula is looked up to
RowsOf(n) == look_up(df, Definition(n), DictOrder(Definition(n)), years).rows

\* The values the table holds for the direct variable n in year y
ValuesIn(n, y) ==
    { RowsOf(n)[k].rec["value"] :
          k \in { j \in DOMAIN RowsOf(n) : RowsOf(n)[j].rec["year"] = y } }

\* The formula with each name of `names' replaced, one after the other on
\* the result of the previous replacement, by the name in parentheses
RECURSIVE Parenthesized(_, _)
Parenthesized(formula, names) ==
    IF names = <<>> THEN formula
    ELSE Parenthesized(
             Replace(formula, Head(names), <<"(">> \o Head(names) \o <<")">>),
             Tail(names))

\* The requested variable is derived from direct variables only
DerivedFromDirect(n) ==
    /\ IsDerived(n)
    /\ \A c \in References(n) : Declared(c) /\ ~IsDerived(c)

\* C3: the expanded formula of a derived variable is its formula in which
\* every referenced variable has been replaced by its parenthesized
\* expansion, the substitutions being cumulative ('X + Y' gives '(X) + (Y)').
C3_EveryReferenceSubstituted ==
    ( /\ api = "value"
      /\ status = "returned"
      /\ DerivedFromDirect(variable_name) )
    => ret[1].final_formula =
           Parenthesized(FormulaOf(variable_name),
                         Variables(FormulaOf(variable_name)))

\* C4: for a derived variable of formula `A + B' over two direct variables,
\* the series returned holds, for every requested year in which A and B both
\* have a value, the sum of the two values of that year.
C4_SumPairedByYear ==
    ( /\ api = "value"
      /\ status = "returned"
      /\ DerivedFromDirect(variable_name)
      /\ \E a, b \in References(variable_name) :
            FormulaOf(variable_name) = Formula(a, "+", b) )
    => \A a, b \in References(variable_name) :
          FormulaOf(variable_name) = Formula(a, "+", b) =>
              \A y \in years :
                  \A va \in ValuesIn(a, y), vb \in ValuesIn(b, y) :
                      ( /\ Cardinality(ValuesIn(a, y)) = 1
                        /\ Cardinality(ValuesIn(b, y)) = 1 )
                      => \E k \in DOMAIN ret[1].serie.index :
                            /\ ret[1].serie.index[k] = y
                            /\ ret[1].serie.values[k] = va + vb

\* No row of the table within the requested years has the code `name'
NoRowWithCode(name) ==
    \A k \in DOMAIN df.rows :
        df.rows[k].rec["year"] \in years => df.rows[k].rec["code"] # name

ReturnedEmpty ==
    /\ status = "returned"
    /\ ret = <<[serie |-> EmptySerie, final_formula |-> <<>>]>>

\* C5 as stated: with a registry that is None or empty, a variable name that
\* is the code of no row in the requested years resolves to an empty series
\* and the empty formula, without an error.
C5_AbsentOrEmptyRegistry ==
    ( /\ api = "value"
      /\ Finished
      /\ IsNone(index_by_variable) \/ DOMAIN index_by_variable.v = {}
      /\ NoRowWithCode(variable_name) )
    => ReturnedEmpty

\* C5 as amended: with the registry None, such a variable name resolves to an
\* empty series and the empty formula, without an error; with an empty
\* dictionary as registry the call ends with KeyError and returns nothing.
C5_AbsentRegistryOnly ==
    ( /\ api = "value"
      /\ Finished
      /\ NoRowWithCode(variable_name) )
    => /\ IsNone(index_by_variable) => ReturnedEmpty
       /\ ( /\ IsDict(index_by_variable)
            /\ DOMAIN index_by_variable.v = {} )
          => (status = "KeyError" /\ ret = <<>>)

\* C5 witness: the registry is None, no row has the name as code, and the
\* call has returned
C5_Witness ==
    /\ api = "value"
    /\ IsNone(index_by_variable)
    /\ NoRowWithCode(variable_name)
    /\ df.rows # <<>>
    /\ status = "returned"

\* n took the derived branch and its formula refers to an undeclared name
RefersToUndeclared(n) ==
    IsDerived(n) /\ \E c \in References(n) : ~Declared(c)

\* C6: when the formula of a derived variable met by the resolution refers
\* to a name that is not a key of the registry, the resolution ends with the
\* unresolved-reference error (KeyError) and returns nothing, wherever the
\* name stands in the formula and whatever the other references are.
C6_UndeclaredReferenceRaises ==
    (Finished /\ \E n \in printed : RefersToUndeclared(n))
    => (status = "KeyError" /\ ret = <<>>)

\* The definition marks the variable `drop: true'
MarkedDrop(n) ==
    "drop" \in DOMAIN Definition(n) /\ Definition(n)["drop"] = PBool(TRUE)

WithoutDrop(d) == [k \in DOMAIN d \ {"drop"} |-> d[k]]

\* The series of the direct variable c, looked up as if it were not dropped
SerieIgnoringDrop(c) ==
    LET d == WithoutDrop(Definition(c))
        frame == look_up(df, d, DictOrder(d), years)
    IN IF IsEmpty(frame) THEN EmptySerie ELSE DirectSerie(frame, c)

\* The (year, value) pairs of a series
PairsOfSerie(serie) ==
    { <<serie.index[k], serie.values[k]>> : k \in DOMAIN serie.index }

\* The (year, value) pairs of the column n of the combined table
PairsOfColumn(n) ==
    UNION { { <<combined.index[k], v>> : v \in combined.cells[c][k] } :
            c \in { j \in DOMAIN combined.columns : combined.columns[j] = n },
            k \in DOMAIN combined.index }

\* The series of n evaluated over its references looked up without `drop'
SerieOverUndropped(n) ==
    LET names == Variables(FormulaOf(n))
    IN MakeSerie(n,
                 Eval(FormulaOf(n),
                      [c \in References(n) |-> Squeeze(SerieIgnoringDrop(c))]),
                 SerieIgnoringDrop(names[Len(names)]).index)

\* C7: the table returned by get_or_construct_data has no column for a
\* variable marked `drop: true'; a derived variable that refers to dropped
\* variables has the values obtained with these variables looked up as if
\* they were not dropped, and the formula get_or_construct_value returned
\* for it is reported under its name.
C7_DroppedExcludedButUsed ==
    (api = "data" /\ status = "returned")
    => \A n \in DOMAIN index_by_variable.v :
          /\ MarkedDrop(n) => \A j \in DOMAIN combined.columns :
                                 combined.columns[j] # n
          /\ (DerivedFromDirect(n) /\ ~MarkedDrop(n)) =>
                LET names == Variables(FormulaOf(n))
                    last == names[Len(names)]
                IN /\ n \in Range(combined.columns)
                   /\ PairsOfColumn(n) = PairsOfSerie(SerieOverUndropped(n))
                   /\ n \in DOMAIN formulas
                   /\ formulas[n] = Replace(FormulaOf(n), last,
                                            <<"(">> \o last \o <<")">>)

\* C7 witness: the batch returned, X is dropped, and Z, which refers to X,
\* has a column with the sum over two years
C7_Witness ==
    /\ api = "data"
    /\ status = "returned"
    /\ MarkedDrop(sX)
    /\ sZ \in Range(combined.columns)
    /\ Cardinality(PairsOfColumn(sZ)) = 2

\* The years of the rows the direct variable n is looked up to
YearsOf(n) == [k \in DOMAIN RowsOf(n) |-> RowsOf(n)[k].rec["year"]]

\* C8: when the filter of the requested direct definition matches, within the
\* requested years, more than one row for the same year, the call ends with
\* an ambiguous-match error.
C8_AmbiguousMatchRaises ==
    ( /\ api = "value"
      /\ Finished
      /\ Declared(variable_name)
      /\ ~IsDerived(variable_name)
      /\ HasDuplicates(YearsOf(variable_name)) )
    => status = "AmbiguousMatchError"

\* The names reached from the names of S through at most k formulas
RECURSIVE Closure(_, _)
Closure(S, k) ==
    IF k = 0 THEN S
    ELSE Closure(S \cup UNION { References(m) : m \in S }, k - 1)

\* The names met when resolving n: n and what its formulas lead to
Reachable(n) ==
    Closure({n}, IF IsDict(index_by_variable)
                 THEN Cardinality(DOMAIN index_by_variable.v) ELSE 0)

OnCycle(m) == \E c \in References(m) : m \in Reachable(c)

ReachesCycle(n) == \E m \in Reachable(n) : OnCycle(m)

\* The variables the call is asked to resolve
Requested ==
    IF api = "value" THEN {variable_name} ELSE DOMAIN index_by_variable.v

\* A variable is entered again while an activation for it is in progress
Reentered ==
    \E a, b \in DOMAIN stack :
        a < b /\ stack[a].variable_name = stack[b].variable_name

\* Some step of the call can be taken
CanStep ==
    \/ EnterGuard
    \/ CallComponentGuard
    \/ AfterComponentGuard
    \/ EvaluateGuard
    \/ DataCallGuard
    \/ DataCollectGuard
    \/ DataReturnGuard

\* The steps an activation for n takes when nothing raises, formulas being
\* followed through at most k levels
RECURSIVE Work(_, _), WorkOfAll(_, _)
Work(n, k) ==
    IF k = 0 \/ ~IsDerived(n) THEN 1
    ELSE 2 + WorkOfAll(Variables(FormulaOf(n)), k - 1)
WorkOfAll(names, k) ==
    IF names = <<>> THEN 0
    ELSE 2 + Work(Head(names), k) + WorkOfAll(Tail(names), k)

Levels ==
    IF IsDict(index_by_variable)
    THEN Cardinality(DOMAIN index_by_variable.v) ELSE 0

\* The steps the activation f still has to take itself
WorkLeft(f) ==
    CASE f.pc = "enter" -> Work(f.variable_name, Levels)
      [] f.pc = "loop" ->
             1 + WorkOfAll(SubSeq(f.variables, f.i, Len(f.variables)), Levels)
      [] OTHER ->
             2 + WorkOfAll(SubSeq(f.variables, f.i + 1, Len(f.variables)), Levels)

RECURSIVE WorkOfStack(_)
WorkOfStack(frames) ==
    IF frames = <<>> THEN 0
    ELSE WorkLeft(Head(frames)) + WorkOfStack(Tail(frames))

RECURSIVE WorkOfSet(_)
WorkOfSet(S) ==
    IF S = {} THEN 0
    ELSE LET n == CHOOSE x \in S : TRUE
         IN 2 + Work(n, Levels) + WorkOfSet(S \ {n})

\* The steps left before the call ends, when nothing raises, with the
\* activations in frames, the pending result in pending and the variables
\* in done already taken by get_or_construct_data
StepsLeft(frames, pending, done) ==
    WorkOfStack(frames)
    + (IF api = "data"
       THEN 1 + WorkOfSet(DOMAIN index_by_variable.v \ Range(done))
              + (IF done # <<>> /\ (frames # <<>> \/ pending # <<>>)
                 THEN 1 ELSE 0)
       ELSE 0)

Acyclic == \A n \in Requested : ~ReachesCycle(n)

\* C9 as stated, for a cycle: when the formulas reachable from the requested
\* variable form a cycle, the resolution never ends of itself: it goes on
\* until the interpreter, out of stack, stops it.
C9_CycleNeverEnds ==
    (Finished /\ \E n \in Requested : ReachesCycle(n))
    => status = "RuntimeError"

\* C9 as amended: when the formulas reachable from the requested variable
\* form no cycle the resolution ends (until it has ended it can take a step,
\* every step leaves fewer steps to take, and the recursion limit is not
\* met); when they form a cycle it never returns a result; and once it has
\* entered a variable again while that variable is in progress, nothing but
\* the recursion limit of the interpreter ends it (no cycle detection).
C9_NoCycleDetection ==
    /\ [](Finished \/ CanStep)
    /\ [][\/ Finished'
          \/ ~Acyclic
          \/ StepsLeft(stack', ret', iterated')
                 < StepsLeft(stack, ret, iterated)]_vars
    /\ [](status = "RuntimeError" => ~Acyclic)
    /\ [](status = "returned" => Acyclic)
    /\ []((Finished /\ Reentered) => status = "RuntimeError")

\* C9 witness: the requested variable is entered for the third time
C9_Witness ==
    /\ api = "value"
    /\ Cardinality({ k \in DOMAIN stack :
                        stack[k].variable_name = variable_name }) >= 3
    /\ status = "running"

=============================================================================
